---- MODULE Spec2Model ----
(***************************************************************************)
(* Model of the Greed optimal-policy solver (code/src/dp/dp.rs) together   *)
(* with the flat Policy table (code/src/solver.rs) and the State / Action  *)
(* / Ruleset types (code/src/lib.rs).                                      *)
(*                                                                         *)
(* f64 values are modelled by exact rationals <<numerator, denominator>>   *)
(* in lowest terms with a positive denominator, so the model follows the   *)
(* arithmetic of the code without its rounding error.                      *)
(***************************************************************************)
EXTENDS Integers, Sequences, FiniteSets, TLC

\* ------------------------------------------------------------------ bounds
MaxM == 2
MaxSides == 3
NumWorkers == 2
MaxCalls == 2
MaxDice == 3
MaxSearchM == 4
MaxSearchSides == 4

\* ------------------------------------------------------- f64 as rationals
RECURSIVE GCD(_, _)
GCD(a, b) ==
    IF b = 0 THEN a ELSE GCD(b, a % b)

Abs(x) ==
    IF x < 0 THEN -x ELSE x

UMax(a, b) ==
    IF a >= b THEN a ELSE b

UMin(a, b) ==
    IF a <= b THEN a ELSE b

F64(n, d) ==
    LET g == GCD(Abs(n), d) IN <<n \div g, d \div g>>

Zero ==
    <<0, 1>>

One ==
    <<1, 1>>

LCM(a, b) ==
    a * (b \div GCD(a, b))

FAdd(x, y) ==
    LET l == LCM(x[2], y[2]) IN F64(x[1] * (l \div x[2]) + y[1] * (l \div y[2]), l)

FNeg(x) ==
    <<-x[1], x[2]>>

FSub(x, y) ==
    FAdd(x, FNeg(y))

FMul(x, y) ==
    LET g1 == GCD(Abs(x[1]), y[2])
        g2 == GCD(Abs(y[1]), x[2])
    IN  <<(x[1] \div g1) * (y[1] \div g2), (x[2] \div g2) * (y[2] \div g1)>>

FLt(x, y) ==
    LET l == LCM(x[2], y[2]) IN x[1] * (l \div x[2]) < y[1] * (l \div y[2])

FGe(x, y) ==
    ~FLt(x, y)

\* A value computed where its statement stands, before what follows it uses it.
Computed(v, e) ==
    IF v = v THEN e ELSE e

\* ------------------------------------------------ State, Action, Ruleset
Ruleset_new(max, sides) ==
    [max |-> max, sides |-> sides]

State_new(active, queued, last) ==
    [active |-> active, queued |-> queued, last |-> last]

Action_new(n, payoff) ==
    [n |-> n, payoff |-> payoff]

\* Greed::new: both scores 0, no last round, turn 0. The random number
\* generator is the choice of the dice in Greed_roll; the names are left out.
Greed_new(ruleset) ==
    [ruleset |-> ruleset, state |-> State_new(0, 0, FALSE), turn |-> 0]

Action_default ==
    [n |-> 0, payoff |-> Zero]

\* ----------------------------------------------------------------- Policy
Policy_new(max) ==
    [policy |-> [i \in 0..((max + 1) * (max + 1) * 2 - 1) |-> Action_default],
     max |-> max]

\* the row stride max in place of max + 1
Policy_index_narrow(pol, state) ==
    LET placement == state.active + pol.max * state.queued
        last_offset == (pol.max + 1) * (pol.max + 1) * (IF state.last THEN 1 ELSE 0)
    IN  placement + last_offset

Policy_index(pol, state) ==
    LET placement == state.active + (pol.max + 1) * state.queued
        last_offset == (pol.max + 1) * (pol.max + 1) * (IF state.last THEN 1 ELSE 0)
    IN  placement + last_offset

\* The slice index is bounds-checked: an index outside the array panics.
Policy_in_bounds(pol, state) ==
    Policy_index(pol, state) \in DOMAIN pol.policy

Policy_get(pol, state) ==
    IF Policy_in_bounds(pol, state)
    THEN pol.policy[Policy_index(pol, state)]
    ELSE Action_default

Policy_set(pol, state, action) ==
    [pol EXCEPT !.policy[Policy_index(pol, state)] = action]

\* active and queued taken from the placement the wrong way round
iter_state_transposed(pol, placement) ==
    LET last_offset == (pol.max + 1) * (pol.max + 1) IN
    IF placement >= last_offset
    THEN State_new((placement - last_offset) \div (pol.max + 1),
                   (placement - last_offset) % (pol.max + 1), TRUE)
    ELSE State_new(placement \div (pol.max + 1), placement % (pol.max + 1), FALSE)

\* The closure of Policy::iter: the State of one placement of the array.
iter_state(pol, placement) ==
    LET last_offset == (pol.max + 1) * (pol.max + 1) IN
    IF placement >= last_offset
    THEN State_new((placement - last_offset) % (pol.max + 1),
                   (placement - last_offset) \div (pol.max + 1), TRUE)
    ELSE State_new(placement % (pol.max + 1), placement \div (pol.max + 1), FALSE)

\* The sequence yielded by Policy::iter, as a vector indexed from 0.
Policy_iter(pol) ==
    [placement \in DOMAIN pol.policy |->
        [state |-> iter_state(pol, placement), action |-> pol.policy[placement]]]

\* -------------------------------------------------------------- PMFLookup
PMFLookup_default ==
    [data |-> <<>>, offsets |-> <<>>, max_n |-> 0]

\* Vectors are 0-indexed functions; VLen is the length of a vector.
VLen(v) ==
    Cardinality(DOMAIN v)

RECURSIVE conv_sum(_, _, _, _, _)
conv_sum(a, b, k, i, acc) ==
    IF i > UMin(k, VLen(a) - 1) THEN acc
    ELSE conv_sum(a, b, k, i + 1,
                  IF k - i <= VLen(b) - 1 THEN FAdd(acc, FMul(a[i], b[k - i])) ELSE acc)

\* The entries 0..k of the convolution, as the vector returned holds them.
RECURSIVE conv_entries(_, _, _)
conv_entries(a, b, k) ==
    IF k < 0 THEN <<>>
    ELSE conv_entries(a, b, k - 1) @@ (k :> conv_sum(a, b, k, 0, Zero))

\* Linear convolution of two finite PMFs, truncated to La + Lb - 1 entries.
fft_convolve(a, b) ==
    conv_entries(a, b, VLen(a) + VLen(b) - 2)

\* sides in place of 1 / sides
dice_pmf_inverted(sides) ==
    [i \in 0..(sides - 1) |-> F64(sides, 1)]

dice_pmf(sides) ==
    [i \in 0..(sides - 1) |-> F64(1, sides)]

\* temp_pmfs after the first pass: entry n is the PMF of n dice, pushed after
\* the entries of fewer dice.
RECURSIVE temp_pmfs(_, _)
temp_pmfs(n, sides) ==
    IF n = 0 THEN (0 :> (0 :> One))
    ELSE LET prev == temp_pmfs(n - 1, sides) IN
         prev @@ (n :> fft_convolve(prev[n - 1], dice_pmf(sides)))

RECURSIVE flat_offset(_, _)
flat_offset(temp, n) ==
    IF n = 0 THEN 0 ELSE flat_offset(temp, n - 1) + VLen(temp[n - 1])

flat_find(temp, offsets, i) ==
    LET n == CHOOSE m \in DOMAIN temp : offsets[m] <= i /\ i < offsets[m] + VLen(temp[m])
    IN  temp[n][i - offsets[n]]

\* the mean-score bound of the terminal search alone, without .max(max + 1)
precompute_max_n_mean_only(max, sides) ==
    (2 * max) \div (sides + 1) + 1

precompute_max_n(max, sides) ==
    UMax((2 * (max + sides)) \div (sides + 1), max + 1)

precompute(max, sides) ==
    LET max_n == precompute_max_n(max, sides)
        temp == temp_pmfs(max_n, sides)
        offsets == [n \in 0..max_n |-> flat_offset(temp, n)]
        total_size == flat_offset(temp, max_n) + VLen(temp[max_n])
    IN  [data |-> [i \in 0..(total_size - 1) |-> flat_find(temp, offsets, i)],
         offsets |-> offsets,
         max_n |-> max_n]

\* The unchecked access is defined only when both indices are inside their arrays.
lookup_defined(pmfs, n, total) ==
    /\ n \in DOMAIN pmfs.offsets
    /\ total >= n
    /\ (pmfs.offsets[n] + (total - n)) \in DOMAIN pmfs.data

lookup(pmfs, n, total) ==
    IF lookup_defined(pmfs, n, total)
    THEN pmfs.data[pmfs.offsets[n] + (total - n)]
    ELSE Zero

lookup_safe(pmfs, n, total) ==
    IF n > pmfs.max_n \/ total < n THEN Zero
    ELSE LET offset == pmfs.offsets[n]
             index == offset + (total - n)
         IN  IF index < VLen(pmfs.data) THEN pmfs.data[index] ELSE Zero

\* --------------------------------------------------------------- DpSolver
DpSolver_new(max, sides) ==
    [ruleset |-> Ruleset_new(max, sides),
     policy |-> Policy_new(max),
     pmfs |-> PMFLookup_default]

\* stops as soon as the payoff fails to rise
Threshold_none ==
    Zero

\* optimal_action.payoff - current_payoff >= 10e-2
Threshold ==
    F64(1, 10)

\* a total above the maximum counted as a win
RECURSIVE terminal_fold_no_bust(_, _, _, _, _)
terminal_fold_no_bust(self, state, dice_rolled, dice_total, acc) ==
    IF dice_total > self.ruleset.sides * dice_rolled THEN acc
    ELSE LET probability == lookup(self.pmfs, dice_rolled, dice_total)
             score == state.active + dice_total
         IN  terminal_fold_no_bust(self, state, dice_rolled, dice_total + 1,
                 IF score > state.queued THEN FAdd(acc, probability)
                 ELSE IF score < state.queued THEN FSub(acc, probability)
                 ELSE acc)

RECURSIVE terminal_fold(_, _, _, _, _)
terminal_fold(self, state, dice_rolled, dice_total, acc) ==
    IF dice_total > self.ruleset.sides * dice_rolled THEN acc
    ELSE LET probability == lookup(self.pmfs, dice_rolled, dice_total)
             score == state.active + dice_total
             next == IF score > state.queued /\ score <= self.ruleset.max
                     THEN FAdd(acc, probability)
                     ELSE IF score = state.queued THEN acc
                     ELSE FSub(acc, probability)
         IN  Computed(next, terminal_fold(self, state, dice_rolled, dice_total + 1, next))

calc_terminal_payoff(self, state, dice_rolled) ==
    IF dice_rolled = 0
    THEN (IF state.active < state.queued THEN FNeg(One)
          ELSE IF state.active = state.queued THEN Zero
          ELSE One)
    ELSE terminal_fold(self, state, dice_rolled, dice_rolled, Zero)

\* the mean-score limit alone, without the + 1 and without .max(max + 1)
terminal_search_limit_mean_only(self) ==
    (2 * self.ruleset.max) \div (self.ruleset.sides + 1)

terminal_search_limit(self) ==
    UMax((2 * self.ruleset.max) \div (self.ruleset.sides + 1) + 1, self.ruleset.max + 1)

terminal_search_start(self, state) ==
    (state.queued - state.active) \div self.ruleset.sides

\* The loop of find_optimal_terminal_action; stop is dice_rolled at the break.
RECURSIVE terminal_search(_, _, _, _)
terminal_search(self, state, optimal_action, dice_rolled) ==
    LET current_payoff == calc_terminal_payoff(self, state, dice_rolled) IN
    IF \/ FGe(FSub(optimal_action.payoff, current_payoff), Threshold)
       \/ dice_rolled >= terminal_search_limit(self)
    THEN [action |-> optimal_action, stop |-> dice_rolled]
    ELSE terminal_search(self, state,
             IF FLt(optimal_action.payoff, current_payoff)
             THEN Action_new(dice_rolled, current_payoff)
             ELSE optimal_action,
             dice_rolled + 1)

\* the comparison of the two scores the wrong way round
terminal_already_behind(self, state) ==
    state.active < state.queued

terminal_already_ahead(self, state) ==
    state.active > state.queued

\* the least sum of the dice in place of the greatest: sides left out
terminal_guaranteed_win_no_sides(self, state) ==
    state.queued - state.active + 1 <= self.ruleset.max - state.active

terminal_guaranteed_win(self, state) ==
    self.ruleset.sides * (state.queued - state.active + 1) <= self.ruleset.max - state.active

find_optimal_terminal_action(self, state) ==
    IF terminal_already_ahead(self, state) THEN Action_new(0, One)
    ELSE IF terminal_guaranteed_win(self, state)
    THEN Action_new(state.queued - state.active + 1, One)
    ELSE terminal_search(self, state, Action_new(0, FNeg(One)),
                         terminal_search_start(self, state)).action

\* Dice counts for which find_optimal_terminal_action calls calc_terminal_payoff.
terminal_evaluated(self, state) ==
    IF terminal_already_ahead(self, state) \/ terminal_guaranteed_win(self, state) THEN {}
    ELSE terminal_search_start(self, state)
           .. terminal_search(self, state, Action_new(0, FNeg(One)),
                              terminal_search_start(self, state)).stop

\* Arguments (n, total) of the PMFLookup::lookup calls made by the payoff folds.
fold_lookups(self, dice_counts) ==
    UNION { { <<n, t>> : t \in n..(self.ruleset.sides * n) } : n \in dice_counts \ {0} }

terminal_lookups(self, state) ==
    fold_lookups(self, terminal_evaluated(self, state))

\* the bust test off by one
is_bust_off_by_one(self, state, dice_total) ==
    state.active + dice_total > self.ruleset.max + 1

\* landing exactly on the maximum counted as a bust
is_bust_at_max(self, state, dice_total) ==
    state.active + dice_total >= self.ruleset.max

\* state.active() + dice_total <= self.max() fails: the roll busts
is_bust(self, state, dice_total) ==
    state.active + dice_total > self.ruleset.max

\* a bust counted as a win: +1.0 in place of -1.0
RECURSIVE normal_fold_bust_wins(_, _, _, _, _)
normal_fold_bust_wins(self, state, dice_rolled, dice_total, acc) ==
    IF dice_total > self.ruleset.sides * dice_rolled THEN acc
    ELSE LET probability == lookup(self.pmfs, dice_rolled, dice_total)
             payoff == IF ~is_bust(self, state, dice_total)
                       THEN FNeg(Policy_get(self.policy,
                                State_new(state.queued, state.active + dice_total, FALSE)).payoff)
                       ELSE One
         IN  normal_fold_bust_wins(self, state, dice_rolled, dice_total + 1,
                                   FAdd(acc, FMul(probability, payoff)))

RECURSIVE normal_fold(_, _, _, _, _)
normal_fold(self, state, dice_rolled, dice_total, acc) ==
    IF dice_total > self.ruleset.sides * dice_rolled THEN acc
    ELSE LET probability == lookup(self.pmfs, dice_rolled, dice_total)
             payoff == IF ~is_bust(self, state, dice_total)
                       THEN FNeg(Policy_get(self.policy,
                                State_new(state.queued, state.active + dice_total, FALSE)).payoff)
                       ELSE FNeg(One)
         IN  normal_fold(self, state, dice_rolled, dice_total + 1,
                         FAdd(acc, FMul(probability, payoff)))

calc_normal_payoff(self, state, dice_rolled) ==
    IF dice_rolled = 0
    THEN FNeg(Policy_get(self.policy, State_new(state.queued, state.active, TRUE)).payoff)
    ELSE normal_fold(self, state, dice_rolled, dice_rolled, Zero)

\* the floor of 2 * (MAX - a) / (s + 1) in place of its ceiling
max_optimal_n_floor(self, state) ==
    (2 * (self.ruleset.max - state.active)) \div (self.ruleset.sides + 1)

max_optimal_n(self, state) ==
    (2 * (self.ruleset.max - state.active + self.ruleset.sides)) \div (self.ruleset.sides + 1)

\* the first of several equal maxima kept
RECURSIVE normal_max_by_first(_, _, _, _)
normal_max_by_first(self, state, best, dice_rolled) ==
    LET cand == Action_new(dice_rolled, calc_normal_payoff(self, state, dice_rolled))
        next == IF FLt(best.payoff, cand.payoff) THEN cand ELSE best
    IN  IF dice_rolled = 0 THEN next
        ELSE normal_max_by_first(self, state, next, dice_rolled - 1)

\* (0..=max_optimal_n).rev() ... max_by: the last of several equal maxima wins.
RECURSIVE normal_max_by(_, _, _, _)
normal_max_by(self, state, best, dice_rolled) ==
    LET cand == Action_new(dice_rolled, calc_normal_payoff(self, state, dice_rolled))
        next == IF FGe(cand.payoff, best.payoff) THEN cand ELSE best
    IN  IF dice_rolled = 0 THEN next
        ELSE normal_max_by(self, state, next, dice_rolled - 1)

\* the search over 1..=max_optimal_n, standing not considered
find_optimal_normal_action_skip_zero(self, state) ==
    LET cands == { Action_new(n, calc_normal_payoff(self, state, n)) :
                     n \in 1..max_optimal_n(self, state) }
    IN  CHOOSE c \in cands :
            \A d \in cands : FGe(c.payoff, d.payoff) /\ (d.payoff = c.payoff => c.n <= d.n)

find_optimal_normal_action(self, state) ==
    LET top == max_optimal_n(self, state)
        first == Action_new(top, calc_normal_payoff(self, state, top))
    IN  IF top = 0 THEN first ELSE normal_max_by(self, state, first, top - 1)

normal_lookups(self, state) ==
    fold_lookups(self, 0..max_optimal_n(self, state))

\* States passed to Policy::get by calc_normal_payoff(state, dice_rolled).
calc_normal_reads(self, state, dice_rolled) ==
    IF dice_rolled = 0 THEN {State_new(state.queued, state.active, TRUE)}
    ELSE { State_new(state.queued, state.active + t, FALSE) :
             t \in { u \in dice_rolled..(self.ruleset.sides * dice_rolled) :
                       ~is_bust(self, state, u) } }

normal_reads(self, state) ==
    UNION { calc_normal_reads(self, state, n) : n \in 0..max_optimal_n(self, state) }

\* ------------------------------------------------------ the state machine
VARIABLES solver, pc, phase, level, split, cursor, results, seti,
          writes, reads, lookups, fault, query, greed

vars == <<solver, pc, phase, level, split, cursor, results, seti,
          writes, reads, lookups, fault, query, greed>>

\* the normal states solved before the terminal states
solve_body_normal_first ==
    <<"precompute_pmfs", "solve_normal_states", "solve_terminal_states">>

\* The body of DpSolver::solve, one call per statement.
solve_body ==
    <<"precompute_pmfs", "solve_terminal_states", "solve_normal_states">>

Stmt ==
    IF pc \in DOMAIN solve_body THEN solve_body[pc] ELSE "return"

Workers ==
    1..NumWorkers

NoQuery ==
    [n |-> -1, total |-> -1, result |-> Zero]

\* states: (0..=max).flat_map(|turn| (0..=max).map(|next| State::new(turn, next, true)))
terminal_states(self) ==
    [i \in 0..((self.ruleset.max + 1) * (self.ruleset.max + 1) - 1) |->
        State_new(i \div (self.ruleset.max + 1), i % (self.ruleset.max + 1), TRUE)]

\* the upper half of the orders mapped like the lower half
normal_state_lower_only(self, ord, place) ==
    IF ord < self.ruleset.max
    THEN State_new(ord - place, place, FALSE)
    ELSE State_new(self.ruleset.max - place, place, FALSE)

\* (turn, next) of one place of one order
normal_state(self, ord, place) ==
    IF ord < self.ruleset.max
    THEN State_new(ord - place, place, FALSE)
    ELSE State_new(self.ruleset.max - place, (ord - self.ruleset.max) + place, FALSE)

\* the loop over the orders without .rev()
normal_orders_ascending(self) ==
    [k \in 0..(2 * self.ruleset.max) |-> k]

\* (0..=2 * self.max()).rev(): the k-th iteration processes order 2 * max - k
normal_orders(self) ==
    [k \in 0..(2 * self.ruleset.max) |-> 2 * self.ruleset.max - k]

normal_states(self, ord) ==
    [place \in 0..UMin(ord, 2 * self.ruleset.max - ord) |-> normal_state(self, ord, place)]

\* A parallel iterator hands each worker one contiguous piece of the index range.
Splits(len) ==
    { sp \in [0..NumWorkers -> 0..len] :
        /\ sp[0] = 0
        /\ sp[NumWorkers] = len
        /\ \A w \in Workers : sp[w - 1] <= sp[w] }

Fork(len) ==
    \E sp \in Splits(len) :
        /\ split' = sp
        /\ cursor' = [w \in Workers |-> sp[w - 1]]
        /\ results' = <<>>
        /\ seti' = 0
        /\ reads' = {}
        /\ lookups' = {}
        /\ phase' = "map"

\* the actions pushed in the order the workers finish, paired with the states by position
collected_by_completion(res, i, states, action) ==
    (VLen(res) :> [state |-> states[VLen(res)], action |-> action]) @@ res

\* The collected vector holds (state, action) pairs, each at the position of its item.
collected(res, i, states, action) ==
    (i :> [state |-> states[i], action |-> action]) @@ res

\* One closure call of the parallel map: worker w computes the next item of its piece.
MapStep(w, states, action, gets, lks) ==
    LET i == cursor[w] IN
    /\ lookups' = lookups \cup lks
    /\ reads' = reads \cup gets
    /\ IF \E l \in lks : ~lookup_defined(solver.pmfs, l[1], l[2])
       THEN fault' = "undefined" /\ UNCHANGED <<results, cursor>>
       ELSE IF \E st \in gets : ~Policy_in_bounds(solver.policy, st)
       THEN fault' = "panic" /\ UNCHANGED <<results, cursor>>
       ELSE /\ results' = collected(results, i, states, action)
            /\ cursor' = [cursor EXCEPT ![w] = i + 1]
            /\ UNCHANGED fault

\* collect(): every worker has finished its piece; the for loop over the vector starts
Join(advance) ==
    /\ \A w \in Workers : cursor[w] = split[w]
    /\ split' = [w \in 0..NumWorkers |-> 0]
    /\ cursor' = [w \in Workers |-> 0]
    /\ IF VLen(results) = 0
       THEN advance
       ELSE phase' = "set" /\ UNCHANGED <<pc, level>>

\* One iteration of `for (state, action) in actions { self.policy.set(&state, action) }`
SetStep(advance) ==
    LET r == results[seti] IN
    /\ seti < VLen(results)
    /\ seti' = seti + 1
    /\ IF Policy_in_bounds(solver.policy, r.state)
       THEN /\ solver' = [solver EXCEPT !.policy = Policy_set(solver.policy, r.state, r.action)]
            /\ writes' = [writes EXCEPT ![Policy_index(solver.policy, r.state)] = @ + 1]
            /\ UNCHANGED fault
            /\ IF seti + 1 = VLen(results)
               THEN advance
               ELSE UNCHANGED <<pc, phase, level>>
       ELSE fault' = "panic" /\ UNCHANGED <<solver, writes, pc, phase, level>>

\* the called function returns: solve goes on with its next statement
Return ==
    /\ pc' = pc + 1
    /\ phase' = "fork"
    /\ level' = 0

\* the next iteration of `for order in (0..=2 * self.max()).rev()`, or the end of the loop
NextOrder ==
    IF level + 1 < VLen(normal_orders(solver))
    THEN level' = level + 1 /\ phase' = "fork" /\ UNCHANGED pc
    ELSE Return

order ==
    normal_orders(solver)[level]

Init ==
    \E max \in 0..MaxM, sides \in 1..MaxSides :
        /\ solver = DpSolver_new(max, sides)
        /\ pc = 1
        /\ phase = "fork"
        /\ level = 0
        /\ split = [w \in 0..NumWorkers |-> 0]
        /\ cursor = [w \in Workers |-> 0]
        /\ results = <<>>
        /\ seti = 0
        /\ writes = [i \in DOMAIN Policy_new(max).policy |-> 0]
        /\ reads = {}
        /\ lookups = {}
        /\ fault = "none"
        /\ greed = Greed_new(Ruleset_new(0, 1))
        /\ query = NoQuery

precompute_pmfs ==
    /\ fault = "none"
    /\ Stmt = "precompute_pmfs"
    /\ solver' = [solver EXCEPT !.pmfs = precompute(solver.ruleset.max, solver.ruleset.sides)]
    /\ Return
    /\ UNCHANGED <<split, cursor, results, seti, writes, reads, lookups, fault, query, greed>>

solve_terminal_states_fork ==
    /\ fault = "none"
    /\ Stmt = "solve_terminal_states"
    /\ phase = "fork"
    /\ Fork(VLen(terminal_states(solver)))
    /\ UNCHANGED <<solver, pc, level, writes, fault, query, greed>>

solve_terminal_states_map(w) ==
    /\ fault = "none"
    /\ Stmt = "solve_terminal_states"
    /\ phase = "map"
    /\ cursor[w] < split[w]
    /\ LET states == terminal_states(solver)
           state == states[cursor[w]]
       IN  MapStep(w, states, find_optimal_terminal_action(solver, state),
                   {}, terminal_lookups(solver, state))
    /\ UNCHANGED <<solver, pc, phase, level, split, seti, writes, query, greed>>

solve_terminal_states_collect ==
    /\ fault = "none"
    /\ Stmt = "solve_terminal_states"
    /\ phase = "map"
    /\ Join(Return)
    /\ UNCHANGED <<solver, seti, results, writes, reads, lookups, fault, query, greed>>

solve_terminal_states_set ==
    /\ fault = "none"
    /\ Stmt = "solve_terminal_states"
    /\ phase = "set"
    /\ SetStep(Return)
    /\ UNCHANGED <<split, cursor, results, reads, lookups, query, greed>>

solve_normal_states_fork ==
    /\ fault = "none"
    /\ Stmt = "solve_normal_states"
    /\ phase = "fork"
    /\ Fork(VLen(normal_states(solver, order)))
    /\ UNCHANGED <<solver, pc, level, writes, fault, query, greed>>

solve_normal_states_map(w) ==
    /\ fault = "none"
    /\ Stmt = "solve_normal_states"
    /\ phase = "map"
    /\ cursor[w] < split[w]
    /\ LET states == normal_states(solver, order)
           state == states[cursor[w]]
       IN  MapStep(w, states, find_optimal_normal_action(solver, state),
                   normal_reads(solver, state), normal_lookups(solver, state))
    /\ UNCHANGED <<solver, pc, phase, level, split, seti, writes, query, greed>>

solve_normal_states_collect ==
    /\ fault = "none"
    /\ Stmt = "solve_normal_states"
    /\ phase = "map"
    /\ Join(NextOrder)
    /\ UNCHANGED <<solver, seti, results, writes, reads, lookups, fault, query, greed>>

solve_normal_states_set ==
    /\ fault = "none"
    /\ Stmt = "solve_normal_states"
    /\ phase = "set"
    /\ SetStep(NextOrder)
    /\ UNCHANGED <<split, cursor, results, reads, lookups, query, greed>>

Next ==
    \/ precompute_pmfs
    \/ solve_terminal_states_fork
    \/ \E w \in Workers : solve_terminal_states_map(w)
    \/ solve_terminal_states_collect
    \/ solve_terminal_states_set
    \/ solve_normal_states_fork
    \/ \E w \in Workers : solve_normal_states_map(w)
    \/ solve_normal_states_collect
    \/ solve_normal_states_set

Spec == Init /\ [][Next]_vars

\* --------------------------------------------- PMFLookup queried on its own
InitLookup ==
    \E max \in 0..MaxM, sides \in 1..MaxSides :
        /\ solver = [DpSolver_new(max, sides) EXCEPT !.pmfs = precompute(max, sides)]
        /\ pc = 1
        /\ phase = "fork"
        /\ level = 0
        /\ split = [w \in 0..NumWorkers |-> 0]
        /\ cursor = [w \in Workers |-> 0]
        /\ results = <<>>
        /\ seti = 0
        /\ writes = [i \in DOMAIN Policy_new(max).policy |-> 0]
        /\ reads = {}
        /\ lookups = {}
        /\ fault = "none"
        /\ greed = Greed_new(Ruleset_new(0, 1))
        /\ query = NoQuery

lookup_safe_call ==
    \E n \in 0..(solver.pmfs.max_n + 1), total \in 0..(solver.ruleset.sides * (solver.pmfs.max_n + 1)) :
        /\ query' = [n |-> n, total |-> total, result |-> lookup_safe(solver.pmfs, n, total)]
        /\ UNCHANGED <<solver, pc, phase, level, split, cursor, results, seti,
                       writes, reads, lookups, fault, greed>>

NextLookup ==
    lookup_safe_call

SpecLookup == InitLookup /\ [][NextLookup]_vars

Done ==
    Stmt = "return" /\ fault = "none"

\* ------------------------------------------ payoff queries after solve
\* the queried action stored in the policy
borrow_shared_stored(self, state, action) ==
    [self EXCEPT !.policy = Policy_set(self.policy, state, action)]

\* calc_normal_payoff and calc_terminal_payoff take &self: the solver after
\* the call is the solver before it.
borrow_shared(self, state, action) ==
    self

calc_normal_payoff_call ==
    /\ Done
    /\ \E a \in 0..solver.ruleset.max, q \in 0..solver.ruleset.max,
          last \in BOOLEAN, n \in 0..solver.pmfs.max_n :
           LET state == State_new(a, q, last)
               result == calc_normal_payoff(solver, state, n)
           IN  /\ query' = [op |-> "calc_normal_payoff", state |-> state, n |-> n,
                            result |-> result]
               /\ solver' = borrow_shared(solver, state, Action_new(n, result))
    /\ UNCHANGED <<pc, phase, level, split, cursor, results, seti,
                   writes, reads, lookups, fault, greed>>

calc_terminal_payoff_call ==
    /\ Done
    /\ \E a \in 0..solver.ruleset.max, q \in 0..solver.ruleset.max,
          last \in BOOLEAN, n \in 0..solver.pmfs.max_n :
           LET state == State_new(a, q, last)
               result == calc_terminal_payoff(solver, state, n)
           IN  /\ query' = [op |-> "calc_terminal_payoff", state |-> state, n |-> n,
                            result |-> result]
               /\ solver' = borrow_shared(solver, state, Action_new(n, result))
    /\ UNCHANGED <<pc, phase, level, split, cursor, results, seti,
                   writes, reads, lookups, fault, greed>>

NextQuery ==
    \/ Next
    \/ calc_normal_payoff_call
    \/ calc_terminal_payoff_call

SpecQuery == Init /\ [][NextQuery]_vars

\* ------------------------------------------------ Solver::policy called again
\* fn policy(&mut self): self.solve(); self.policy.clone(). The call in
\* progress returns its clone and the next call enters solve on the same solver.
Solver_policy ==
    /\ Done
    /\ query = NoQuery
    /\ query' = [op |-> "policy", result |-> solver.policy]
    /\ pc' = 1
    /\ phase' = "fork"
    /\ level' = 0
    /\ results' = <<>>
    /\ seti' = 0
    /\ writes' = [i \in DOMAIN writes |-> 0]
    /\ reads' = {}
    /\ lookups' = {}
    /\ UNCHANGED <<solver, split, cursor, fault, greed>>

NextPolicy ==
    \/ Next
    \/ Solver_policy

SpecPolicy == Init /\ [][NextPolicy]_vars

\* ------------------------------------------------- the Policy on its own
\* the action stored by the k-th call: each differs from Action::default()
\* and from the one stored by the call before
StoredAction(k) ==
    Action_new(k, IF k % 2 = 1 THEN One ELSE FNeg(One))

\* the number of calls made on the Policy so far
PolicyCalls ==
    IF query = NoQuery THEN 0 ELSE query.calls

\* Policy::new(max): every slot holds Action::default()
InitTable ==
    Init /\ solver.ruleset.sides = 1

Policy_set_call ==
    /\ PolicyCalls < MaxCalls
    /\ \E a \in 0..solver.policy.max, q \in 0..solver.policy.max,
          last \in BOOLEAN :
           LET action == StoredAction(PolicyCalls + 1) IN
           /\ solver' = [solver EXCEPT
                            !.policy = Policy_set(solver.policy, State_new(a, q, last), action)]
           /\ query' = [op |-> "set", state |-> State_new(a, q, last), action |-> action,
                        calls |-> PolicyCalls + 1]
    /\ UNCHANGED <<pc, phase, level, split, cursor, results, seti,
                   writes, reads, lookups, fault, greed>>

Policy_iter_call ==
    /\ PolicyCalls < MaxCalls
    /\ query' = [op |-> "iter", items |-> Policy_iter(solver.policy),
                 calls |-> PolicyCalls + 1]
    /\ UNCHANGED <<solver, pc, phase, level, split, cursor, results, seti,
                   writes, reads, lookups, fault, greed>>

NextTable ==
    \/ Policy_set_call
    \/ Policy_iter_call

SpecTable == InitTable /\ [][NextTable]_vars

\* ------------------------------------------------------------ pmf (pmf.rs)
\* Entry s + 1 is the entry of index s of the array: the least number of dice
\* of s sides for which the normal approximation is used.
APPROXIMATION_TABLE ==
    << 65535, 65535, 200, 106, 76, 59, 48, 39, 33, 29, 26, 23, 21, 19, 17, 15, 14, 13, 12, 12,
       11, 10, 10, 9, 9, 9, 8, 8, 8, 7, 7, 7, 7, 6, 6, 6, 6, 6, 6, 5,
       5, 5, 5, 5, 5, 5, 5, 5, 4, 4, 4, 4, 4, 4, 2, 2, 2, 2, 2, 2,
       2, 2, 2, 2, 2, 2, 2, 2, 2, 2, 2, 2, 2, 2, 2, 2, 2, 2, 2, 2,
       2, 2, 2, 2, 2, 2, 2, 2, 2, 2, 2, 2, 2, 2, 2, 2, 2, 2, 2, 2,
       2, 2, 2, 2, 2, 2, 2, 2, 2, 2, 2, 2, 2, 2, 2, 2, 2, 2, 2, 2,
       2, 2, 2, 2, 2, 2, 2, 2, 2, 2, 2, 2, 2, 2, 2, 2, 2, 2, 2, 2,
       2, 2, 2, 2, 2, 2, 2, 2, 2, 2, 2, 2, 2, 2, 2, 2, 2, 2, 2, 2,
       2, 2, 2, 2, 2, 2, 2, 2, 2, 2, 2, 2, 2, 2, 2, 2, 2, 2, 2, 2,
       2, 2, 2, 2, 2, 2, 2, 2, 2, 2, 2, 2, 2, 2, 2, 2, 2, 2, 2, 2,
       2, 1 >>

approximation_threshold(s) ==
    APPROXIMATION_TABLE[s + 1]

\* the product of the integers lo..=hi
RECURSIVE range_product(_, _)
range_product(lo, hi) ==
    IF lo > hi THEN 1 ELSE lo * range_product(lo + 1, hi)

combinations(n, k) ==
    LET cutoff == IF k < n - k THEN n - k ELSE k
    IN  range_product(cutoff + 1, n) \div range_product(1, n - cutoff)

RECURSIVE BigInt_pow(_, _)
BigInt_pow(b, e) ==
    IF e = 0 THEN 1 ELSE b * BigInt_pow(b, e - 1)

\* The fold of pmf_exact over k in 0..=(total - n) / s; pmf calls pmf_exact
\* only with total >= n.
RECURSIVE compositions(_, _, _, _, _)
compositions(total, n, s, k, acc) ==
    IF k > (total - n) \div s THEN acc
    ELSE LET term == combinations(n, k) * combinations(total - s * k - 1, n - 1)
         IN  compositions(total, n, s, k + 1,
                          IF k % 2 = 0 THEN acc + term ELSE acc - term)

pmf_exact(total, n, s) ==
    IF total < s \/ total > n * s THEN Zero
    ELSE F64(compositions(total, n, s, 0, 0), BigInt_pow(s, n))

\* The density of Normal::new(mean, std_dev) at x, left unevaluated.
Normal_pdf(mean, std_dev, x) ==
    [mean |-> mean, std_dev |-> std_dev, x |-> x]

\* z = (total - mean) / variance.sqrt() is kept as its numerator and the
\* square of its denominator.
pmf_normal_approximation(total, n, s) ==
    IF n <= 1 THEN (IF total = n THEN One ELSE Zero)
    ELSE IF total < n \/ total > n * s THEN Zero
    ELSE LET mean == F64(n * s, 2)
             variance == F64(n * (s * s - 1), 12)
             z == [numerator |-> FSub(F64(total, 1), mean), denominator_squared |-> variance]
         IN  Normal_pdf(mean, variance, z)

pmf(total, n, s) ==
    IF n = 0 \/ s = 0 THEN Zero
    ELSE IF total < n \/ total > n * s THEN Zero
    ELSE IF s = 1 THEN (IF n # total THEN One ELSE Zero)
    ELSE IF s < Len(APPROXIMATION_TABLE)
    THEN (IF n < approximation_threshold(s)
          THEN pmf_exact(total, n, s)
          ELSE pmf_normal_approximation(total, n, s))
    ELSE pmf_normal_approximation(total, n, s)

\* the numbers of sides tried: the small ones, and one whose threshold is 2
PmfSides ==
    (0..MaxSides) \cup {54}

InitPmf ==
    \E total \in 0..(MaxDice * MaxSides + 1), n \in 0..MaxDice, s \in PmfSides :
        /\ query = [op |-> "args", total |-> total, n |-> n, s |-> s]
        /\ solver = DpSolver_new(0, 1)
        /\ pc = 1
        /\ phase = "fork"
        /\ level = 0
        /\ split = [w \in 0..NumWorkers |-> 0]
        /\ cursor = [w \in Workers |-> 0]
        /\ results = <<>>
        /\ seti = 0
        /\ writes = [i \in DOMAIN Policy_new(0).policy |-> 0]
        /\ reads = {}
        /\ lookups = {}
        /\ fault = "none"
        /\ greed = Greed_new(Ruleset_new(0, 1))

pmf_call ==
    /\ query.op = "args"
    /\ query' = [op |-> "pmf", total |-> query.total, n |-> query.n, s |-> query.s,
                 result |-> pmf(query.total, query.n, query.s)]
    /\ UNCHANGED <<solver, pc, phase, level, split, cursor, results, seti,
                   writes, reads, lookups, fault, greed>>

NextPmf ==
    pmf_call

SpecPmf == InitPmf /\ [][NextPmf]_vars

\* ------------------------------------- pmf_normal_approximation on its own
\* Normal::new(mean, std_dev) is an Err unless std_dev > 0, and is unwrapped.
pmf_normal_approximation_panics(total, n, s) ==
    /\ n >= 2
    /\ total >= n
    /\ total <= n * s
    /\ ~FLt(Zero, F64(n * (s * s - 1), 12))

pmf_normal_approximation_call ==
    /\ query.op = "args"
    /\ fault = "none"
    /\ IF pmf_normal_approximation_panics(query.total, query.n, query.s)
       THEN fault' = "panic" /\ UNCHANGED query
       ELSE /\ query' = [op |-> "pmf_normal_approximation", total |-> query.total,
                         n |-> query.n, s |-> query.s,
                         result |-> pmf_normal_approximation(query.total, query.n, query.s)]
            /\ UNCHANGED fault
    /\ UNCHANGED <<solver, pc, phase, level, split, cursor, results, seti,
                   writes, reads, lookups, greed>>

NextApprox ==
    pmf_normal_approximation_call

SpecApprox == InitPmf /\ [][NextApprox]_vars

\* ------------------------------------------------- the game runner (play.rs)
\* Uniform::new(low, high) samples the half-open range low..high, and is an
\* Err when that range is empty.
Uniform_new(low, high) ==
    low..(high - 1)

\* The sums the fold over 0..n can produce when each sample is one of faces.
RECURSIVE roll_sums(_, _)
roll_sums(faces, n) ==
    IF n = 0 THEN {0}
    ELSE { acc + face : acc \in roll_sums(faces, n - 1), face \in faces }

\* the test of self.state.last left out: only a bust ends the game
roll_ignores_last(self, n, sum) ==
    LET next == State_new(self.state.queued, self.state.active + sum, n = 0)
    IN  [greed |-> [self EXCEPT !.turn = @ + 1, !.state = next],
         result |-> next.queued > self.ruleset.max]

\* Greed::roll after the dice are thrown: the Greed it leaves and the value it returns.
roll(self, n, sum) ==
    IF self.state.last
    THEN [greed |-> [self EXCEPT !.turn = @ + 1,
                                 !.state = State_new(self.state.queued,
                                                     self.state.active + sum, TRUE)],
          result |-> TRUE]
    ELSE LET next == State_new(self.state.queued, self.state.active + sum, n = 0)
         IN  [greed |-> [self EXCEPT !.turn = @ + 1, !.state = next],
              result |-> next.queued > self.ruleset.max]

\* The loop of Greed::play runs until roll returns true.
Playing ==
    IF query = NoQuery THEN TRUE ELSE ~query.result

InitPlay ==
    \E max \in 0..MaxM, sides \in 1..MaxSides :
        /\ greed = Greed_new(Ruleset_new(max, sides))
        /\ query = NoQuery
        /\ solver = DpSolver_new(0, 1)
        /\ pc = 1
        /\ phase = "fork"
        /\ level = 0
        /\ split = [w \in 0..NumWorkers |-> 0]
        /\ cursor = [w \in Workers |-> 0]
        /\ results = <<>>
        /\ seti = 0
        /\ writes = [i \in DOMAIN Policy_new(0).policy |-> 0]
        /\ reads = {}
        /\ lookups = {}
        /\ fault = "none"

\* One iteration of the loop of play: n is read from stdin and rolled.
\* Uniform::new(...).unwrap() panics on the first die when the range is empty.
Greed_roll ==
    /\ fault = "none"
    /\ Playing
    /\ \E n \in 0..MaxDice :
           LET faces == Uniform_new(1, greed.ruleset.sides) IN
           IF n > 0 /\ faces = {}
           THEN fault' = "panic" /\ UNCHANGED <<greed, query>>
           ELSE \E sum \in roll_sums(faces, n) :
                    LET r == roll(greed, n, sum) IN
                    /\ greed' = r.greed
                    /\ query' = [op |-> "roll", n |-> n, sum |-> sum, result |-> r.result]
                    /\ UNCHANGED fault
    /\ UNCHANGED <<solver, pc, phase, level, split, cursor, results, seti,
                   writes, reads, lookups>>

NextPlay ==
    Greed_roll

SpecPlay == InitPlay /\ [][NextPlay]_vars

\* ------------------------------- find_optimal_terminal_action on its own
\* A solver on which precompute_pmfs has been called and no solve is running,
\* for the rulesets of the terminal search.
InitTerminal ==
    \E max \in 0..MaxSearchM, sides \in 1..MaxSearchSides :
        /\ solver = [DpSolver_new(max, sides) EXCEPT !.pmfs = precompute(max, sides)]
        /\ pc = VLen(solve_body) + 1
        /\ phase = "fork"
        /\ level = 0
        /\ split = [w \in 0..NumWorkers |-> 0]
        /\ cursor = [w \in Workers |-> 0]
        /\ results = <<>>
        /\ seti = 0
        /\ writes = [i \in DOMAIN Policy_new(max).policy |-> 0]
        /\ reads = {}
        /\ lookups = {}
        /\ fault = "none"
        /\ query = NoQuery
        /\ greed = Greed_new(Ruleset_new(0, 1))

\* One call of find_optimal_terminal_action(state); stop is the dice count at
\* which the loop was left, -1 when the function returned before the loop.
find_optimal_terminal_action_call ==
    /\ query = NoQuery
    /\ \E a \in 0..solver.ruleset.max, q \in 0..solver.ruleset.max :
           LET state == State_new(a, q, TRUE)
               searched == /\ ~terminal_already_ahead(solver, state)
                           /\ ~terminal_guaranteed_win(solver, state)
           IN  query' = [op |-> "find_optimal_terminal_action", state |-> state,
                         result |-> find_optimal_terminal_action(solver, state),
                         stop |-> IF searched
                                  THEN terminal_search(solver, state, Action_new(0, FNeg(One)),
                                           terminal_search_start(solver, state)).stop
                                  ELSE -1]
    /\ UNCHANGED <<solver, pc, phase, level, split, cursor, results, seti,
                   writes, reads, lookups, fault, greed>>

\* one call per run: the calls do not change the solver
NextTerminal ==
    \/ find_optimal_terminal_action_call
    \/ query = NoQuery /\ calc_terminal_payoff_call

SpecTerminal == InitTerminal /\ [][NextTerminal]_vars

\* ------------------------------------------- the bound of the normal search
\* The first statement of find_optimal_normal_action(state) on its own.
max_optimal_n_call ==
    /\ query = NoQuery
    /\ \E a \in 0..solver.ruleset.max, q \in 0..solver.ruleset.max :
           LET state == State_new(a, q, FALSE)
           IN  query' = [op |-> "max_optimal_n", state |-> state,
                         result |-> max_optimal_n(solver, state)]
    /\ UNCHANGED <<solver, pc, phase, level, split, cursor, results, seti,
                   writes, reads, lookups, fault, greed>>

NextBound ==
    max_optimal_n_call

SpecBound == InitTerminal /\ [][NextBound]_vars

\* ----------------------------------- solve_terminal_states called on its own
\* The solver is new (the benchmarks call solve_terminal_states right after
\* new) or has had precompute_pmfs called; the call is the statement in progress.
InitBench ==
    \E max \in 0..MaxM, sides \in 1..MaxSides :
      \E pmfs \in {PMFLookup_default, precompute(max, sides)} :
        /\ solver = [DpSolver_new(max, sides) EXCEPT !.pmfs = pmfs]
        /\ pc = 2
        /\ phase = "fork"
        /\ level = 0
        /\ split = [w \in 0..NumWorkers |-> 0]
        /\ cursor = [w \in Workers |-> 0]
        /\ results = <<>>
        /\ seti = 0
        /\ writes = [i \in DOMAIN Policy_new(max).policy |-> 0]
        /\ reads = {}
        /\ lookups = {}
        /\ fault = "none"
        /\ query = NoQuery
        /\ greed = Greed_new(Ruleset_new(0, 1))

NextBench ==
    \/ solve_terminal_states_fork
    \/ \E w \in Workers : solve_terminal_states_map(w)
    \/ solve_terminal_states_collect
    \/ solve_terminal_states_set

SpecBench == InitBench /\ [][NextBench]_vars

\* ------------------------------------------------ GreedSolver (solver.rs)
\* PMFLookup::precompute of solver.rs: the PMFs of 0..=max_n dice with
\* max_n = (2 * max / (sides + 1) + 1).max(max + 1). Its Vec of vectors is
\* held as the flat table of the same entries; its lookup is bounds-checked.
GreedSolver_precompute(max, sides) ==
    LET max_n == UMax((2 * max) \div (sides + 1) + 1, max + 1)
        temp == temp_pmfs(max_n, sides)
        offsets == [n \in 0..max_n |-> flat_offset(temp, n)]
        total_size == flat_offset(temp, max_n) + VLen(temp[max_n])
    IN  [data |-> [i \in 0..(total_size - 1) |-> flat_find(temp, offsets, i)],
         offsets |-> offsets,
         max_n |-> max_n]

GreedSolver_new(max, sides) ==
    [ruleset |-> Ruleset_new(max, sides),
     policy |-> Policy_new(max),
     pmfs |-> PMFLookup_default]

\* The fold of calc_normal_payoff of solver.rs: only the totals that leave the
\* score below max contribute.
RECURSIVE GreedSolver_normal_fold(_, _, _, _, _)
GreedSolver_normal_fold(self, state, dice_rolled, dice_total, acc) ==
    IF dice_total > self.ruleset.sides * dice_rolled THEN acc
    ELSE LET next == IF state.active + dice_total < self.ruleset.max
                     THEN FAdd(acc, FMul(lookup(self.pmfs, dice_rolled, dice_total),
                               FNeg(Policy_get(self.policy,
                                   State_new(state.queued, state.active + dice_total, FALSE)).payoff)))
                     ELSE acc
         IN  Computed(next, GreedSolver_normal_fold(self, state, dice_rolled, dice_total + 1, next))

GreedSolver_calc_normal_payoff(self, state, dice_rolled) ==
    IF dice_rolled = 0
    THEN FNeg(Policy_get(self.policy, State_new(state.queued, state.active, TRUE)).payoff)
    ELSE GreedSolver_normal_fold(self, state, dice_rolled, dice_rolled, Zero)

GreedSolver_max_reasonable_n(self, state) ==
    (2 * (self.ruleset.max - state.active)) \div (self.ruleset.sides + 1) + 3

\* (0..=max_reasonable_n) ... max_by: the last of several equal maxima wins.
RECURSIVE GreedSolver_max_by(_, _, _, _)
GreedSolver_max_by(self, state, best, dice_rolled) ==
    IF dice_rolled > GreedSolver_max_reasonable_n(self, state) THEN best
    ELSE LET cand == Action_new(dice_rolled,
                                GreedSolver_calc_normal_payoff(self, state, dice_rolled))
             next == IF FGe(cand.payoff, best.payoff) THEN cand ELSE best
         IN  Computed(next, GreedSolver_max_by(self, state, next, dice_rolled + 1))

GreedSolver_find_optimal_normal_action(self, state) ==
    GreedSolver_max_by(self, state,
        Action_new(0, GreedSolver_calc_normal_payoff(self, state, 0)), 1)

\* `for (state, action) in actions { self.policy.set(&state, action) }` with
\* the actions computed from self, the solver before the loop. The terminal
\* search of solver.rs is the one of dp.rs line for line.
RECURSIVE GreedSolver_set_actions(_, _, _, _, _)
GreedSolver_set_actions(pol, self, states, i, normal) ==
    IF i >= VLen(states) THEN pol
    ELSE LET action == IF normal
                       THEN GreedSolver_find_optimal_normal_action(self, states[i])
                       ELSE find_optimal_terminal_action(self, states[i])
             next == Policy_set(pol, states[i], action)
         IN  Computed(next, GreedSolver_set_actions(next, self, states, i + 1, normal))

GreedSolver_solve_terminal_states(self) ==
    [self EXCEPT !.policy = GreedSolver_set_actions(self.policy, self,
                                terminal_states(self), 0, FALSE)]

\* The loop of solve_normal_states from its k-th iteration on.
RECURSIVE GreedSolver_solve_normal_states(_, _)
GreedSolver_solve_normal_states(self, k) ==
    IF k >= VLen(normal_orders(self)) THEN self
    ELSE LET after == [self EXCEPT !.policy =
                          GreedSolver_set_actions(self.policy, self,
                              normal_states(self, normal_orders(self)[k]), 0, TRUE)]
         IN  Computed(after, GreedSolver_solve_normal_states(after, k + 1))

GreedSolver_solve(self) ==
    LET precomputed == [self EXCEPT !.pmfs =
                           GreedSolver_precompute(self.ruleset.max, self.ruleset.sides)]
        terminal == GreedSolver_solve_terminal_states(precomputed)
    IN  GreedSolver_solve_normal_states(terminal, 0)

\* GreedSolver::new(max, sides).solve() for the ruleset the DpSolver has solved.
GreedSolver_solve_call ==
    /\ Done
    /\ query = NoQuery
    /\ query' = [op |-> "GreedSolver::solve",
                 result |-> GreedSolver_solve(GreedSolver_new(solver.ruleset.max,
                                                              solver.ruleset.sides))]
    /\ UNCHANGED <<solver, pc, phase, level, split, cursor, results, seti,
                   writes, reads, lookups, fault, greed>>

NextRefine ==
    \/ Next
    \/ GreedSolver_solve_call

SpecRefine == Init /\ [][NextRefine]_vars

\* ------------------------------------------------------------- properties
MaxScore ==
    solver.ruleset.max

Sides ==
    solver.ruleset.sides

TerminalStateSet ==
    { State_new(a, q, TRUE) : a \in 0..MaxScore, q \in 0..MaxScore }

NormalStateSet ==
    { State_new(a, q, FALSE) : a \in 0..MaxScore, q \in 0..MaxScore }

Slot(st) ==
    solver.policy.policy[Policy_index(solver.policy, st)]

Written(st) ==
    writes[Policy_index(solver.policy, st)] >= 1

OrderOf(st) ==
    st.active + st.queued

\* The state most recently passed to Policy::set by a set loop.
LastSet ==
    IF seti >= 1 /\ (seti - 1) \in DOMAIN results
    THEN {results[seti - 1].state}
    ELSE {}

\* The PMF table holds the blocks of 0..max_n dice.
PmfBuilt ==
    /\ solver.pmfs.max_n = precompute_max_n(MaxScore, Sides)
    /\ DOMAIN solver.pmfs.offsets = 0..solver.pmfs.max_n
    /\ VLen(solver.pmfs.data)
           = solver.pmfs.offsets[solver.pmfs.max_n] + solver.pmfs.max_n * (Sides - 1) + 1

\* The search of a terminal state ran its loop and broke off on a payoff drop.
StoppedEarly(st) ==
    /\ ~terminal_already_ahead(solver, st)
    /\ ~terminal_guaranteed_win(solver, st)
    /\ terminal_search(solver, st, Action_new(0, FNeg(One)),
                       terminal_search_start(solver, st)).stop < terminal_search_limit(solver)

C3_ReadsOnlyHigherOrders ==
    Stmt = "solve_normal_states" =>
        /\ \A st \in NormalStateSet :
               /\ OrderOf(st) > order => writes[Policy_index(solver.policy, st)] = 1
               /\ OrderOf(st) < order => writes[Policy_index(solver.policy, st)] = 0
        /\ \A st \in reads :
               /\ Policy_in_bounds(solver.policy, st)
               /\ Written(st)
               /\ st.last \/ OrderOf(st) > order

C3_Witness ==
    /\ Stmt = "solve_normal_states"
    /\ phase = "map"
    /\ order < 2 * MaxScore
    /\ \E st \in reads : ~st.last /\ OrderOf(st) > order /\ Written(st)

TerminalComputed ==
    \/ Stmt = "solve_terminal_states" /\ phase \in {"map", "set"} /\ results # <<>>
    \/ \E st \in TerminalStateSet : Written(st)

NormalComputed ==
    \/ Stmt = "solve_normal_states" /\ phase \in {"map", "set"} /\ results # <<>>
    \/ \E st \in NormalStateSet : Written(st)

\* C4: solve runs its phases in sequence: the PMF table is built before any
\* terminal state is computed, and every terminal slot is written before the
\* first normal state is computed.
C4_PhasesInSequence ==
    /\ TerminalComputed => PmfBuilt
    /\ NormalComputed => \A st \in TerminalStateSet : Written(st)

C4_Witness ==
    /\ Stmt = "solve_normal_states"
    /\ phase = "map"
    /\ results # <<>>
    /\ order = 2 * MaxScore

\* C5: during one run of solve every Policy slot is written exactly once:
\* never twice, and after solve none is left unwritten.
C5_EachSlotWrittenOnce ==
    /\ \A i \in DOMAIN writes : writes[i] <= 1
    /\ Done => \A i \in DOMAIN writes : writes[i] = 1

C5_Witness ==
    /\ Done
    /\ MaxScore >= 2
    /\ VLen(writes) = 2 * (MaxScore + 1) * (MaxScore + 1)

\* The policy of a run without workers over the same PMF table: every state
\* computed and stored in place, one after the other, terminal states first
\* and then order by order.
RECURSIVE SeqRun(_, _, _)
SeqRun(self, states, i) ==
    IF i = VLen(states) \/ ~Policy_in_bounds(self.policy, states[i]) THEN self
    ELSE LET st == states[i]
             act == IF st.last THEN find_optimal_terminal_action(self, st)
                    ELSE find_optimal_normal_action(self, st)
         IN  SeqRun([self EXCEPT !.policy = Policy_set(self.policy, st, act)], states, i + 1)

SeqOrderStates(self, ord) ==
    LET lo == UMax(0, ord - self.ruleset.max)
        hi == UMin(ord, self.ruleset.max)
    IN  [k \in 0..(hi - lo) |-> State_new(lo + k, ord - (lo + k), FALSE)]

RECURSIVE SeqNormal(_, _)
SeqNormal(self, ord) ==
    LET after == SeqRun(self, SeqOrderStates(self, ord), 0)
    IN  IF ord = 0 THEN after ELSE SeqNormal(after, ord - 1)

SeqTerminalStates(self) ==
    [i \in 0..((self.ruleset.max + 1) * (self.ruleset.max + 1) - 1) |->
        State_new(i % (self.ruleset.max + 1), i \div (self.ruleset.max + 1), TRUE)]

SeqSolve(pmfs, max, sides) ==
    LET fresh == [DpSolver_new(max, sides) EXCEPT !.pmfs = pmfs]
        term == SeqRun(fresh, SeqTerminalStates(fresh), 0)
    IN  SeqNormal(term, 2 * max)

\* C6: the policy produced by solve is the same for every partition of the
\* states among the workers and every interleaving of their steps: it is the
\* policy of the sequential run.
C6_PolicyIndependentOfInterleaving ==
    Done => solver.policy = SeqSolve(solver.pmfs, MaxScore, Sides).policy

C6_Witness ==
    /\ Done
    /\ MaxScore >= 2
    /\ \E st \in NormalStateSet : Slot(st).n >= 1
    /\ \E st \in TerminalStateSet : Slot(st).n >= 2

\* C7: every call of the unchecked lookup(n, total) made during solve has
\* n <= max_n and n <= total <= n*s, and its index stays inside the block of
\* the n-dice PMF.
C7_LookupsInRange ==
    \A l \in lookups :
        /\ l[1] <= precompute_max_n(MaxScore, Sides)
        /\ l[1] <= l[2]
        /\ l[2] <= l[1] * Sides
        /\ lookup_defined(solver.pmfs, l[1], l[2])
        /\ l[1] < solver.pmfs.max_n =>
               solver.pmfs.offsets[l[1]] + (l[2] - l[1]) < solver.pmfs.offsets[l[1] + 1]

C7_Witness ==
    /\ MaxScore >= 2
    /\ Sides >= 2
    /\ \E l \in lookups :
           /\ l[1] = (2 * (MaxScore + Sides)) \div (Sides + 1)
           /\ l[2] = l[1] * Sides
           /\ solver.pmfs.offsets[l[1]] + (l[2] - l[1]) + 1 = solver.pmfs.offsets[l[1] + 1]

\* C8: lookup_safe(n, total) returns 0.0 for every out-of-range query:
\* n > max_n, total < n, or total > n*s.
C8_LookupSafeZeroOutOfRange ==
    (/\ query # NoQuery
     /\ \/ query.n > solver.pmfs.max_n
        \/ query.total < query.n
        \/ query.total > query.n * Sides)
    => query.result = Zero

SetStates ==
    { results[j].state : j \in { k \in DOMAIN results : k < seti } }

\* C9: every State passed to Policy::get or Policy::set during solve has
\* active <= M and queued <= M; a bust outcome is never used as an index.
C9_PolicyAccessInRange ==
    \A st \in reads \cup SetStates :
        /\ st.active \in 0..MaxScore
        /\ st.queued \in 0..MaxScore

C9_Witness ==
    /\ Stmt = "solve_normal_states"
    /\ \E j \in DOMAIN results :
           /\ \E n \in 1..max_optimal_n(solver, results[j].state) :
                  \E t \in n..(Sides * n) :
                      /\ is_bust(solver, results[j].state, t)
                      /\ ~is_bust(solver, results[j].state, n)
           /\ j < seti

\* C10: for every terminal state with active > queued the stored action is
\* exactly n = 0 with payoff +1.
C10_AheadStands ==
    \A st \in TerminalStateSet :
        (st.active > st.queued /\ Written(st)) => Slot(st) = Action_new(0, One)

C10_Witness ==
    \E st \in TerminalStateSet :
        st.active > st.queued + 1 /\ Written(st)

\* C11: the slot of a normal state with active = M, once written (hence for
\* every queued score after solve), holds dice count 0: a player at the
\* maximum score never rolls.
C11_MaxScoreStands ==
    \A q \in 0..MaxScore :
        Written(State_new(MaxScore, q, FALSE)) =>
            Slot(State_new(MaxScore, q, FALSE)).n = 0

C11_Witness ==
    /\ Done
    /\ MaxScore >= 2
    /\ \A q \in 0..MaxScore : Written(State_new(MaxScore, q, FALSE))
    /\ \E q \in 0..MaxScore :
           LET stored == Slot(State_new(MaxScore, q, FALSE))
           IN  stored.n = 0 /\ FLt(Zero, stored.payoff) /\ FLt(stored.payoff, One)

\* C12: the slot of a terminal state with active < queued, once written
\* (hence after solve), holds a dice count n >= 1: a player who is behind in
\* the final round always rolls.
C12_BehindRolls ==
    \A st \in TerminalStateSet :
        (st.active < st.queued /\ Written(st)) => Slot(st).n >= 1

C12_Witness ==
    \E st \in TerminalStateSet :
        /\ st.active < st.queued
        /\ Written(st)
        /\ ~terminal_guaranteed_win(solver, st)
        /\ terminal_search_start(solver, st) = 0
        /\ Slot(st).n >= 1
        /\ FLt(Slot(st).payoff, Zero)

C14_TieTowardSmallerN ==
    Done =>
        \A st \in NormalStateSet :
            \A n \in 0..max_optimal_n(solver, st) :
                calc_normal_payoff(solver, st, n) = Slot(st).payoff => Slot(st).n <= n

C14_Witness ==
    /\ Done
    /\ \E st \in NormalStateSet :
           \E n \in 0..max_optimal_n(solver, st) :
               /\ n > Slot(st).n
               /\ calc_normal_payoff(solver, st, n) = Slot(st).payoff

\* The number of n-tuples of faces 1..s whose sum is total.
RECURSIVE Ways(_, _, _)
RECURSIVE WaysFaces(_, _, _, _)
WaysFaces(n, total, s, f) ==
    IF f = 0 THEN 0 ELSE Ways(n - 1, total - f, s) + WaysFaces(n, total, s, f - 1)

Ways(n, total, s) ==
    IF total < 0 THEN 0
    ELSE IF n = 0 THEN (IF total = 0 THEN 1 ELSE 0)
    ELSE WaysFaces(n, total, s, s)

RECURSIVE Pow(_, _)
Pow(b, e) ==
    IF e = 0 THEN 1 ELSE b * Pow(b, e - 1)

\* P(t | n): the probability that n dice of s faces sum to t.
DiceProbability(t, n, s) ==
    F64(Ways(n, t, s), Pow(s, n))

\* The sum over the totals t..n*s of P(t | n) times the payoff of the outcome.
RECURSIVE NormalPayoffSum(_, _, _)
NormalPayoffSum(st, n, t) ==
    IF t > n * Sides THEN Zero
    ELSE LET outcome == IF st.active + t <= MaxScore
                        THEN FNeg(Slot(State_new(st.queued, st.active + t, FALSE)).payoff)
                        ELSE FNeg(One)
         IN  FAdd(FMul(DiceProbability(t, n, Sides), outcome), NormalPayoffSum(st, n, t + 1))

NormalPayoffDefinition(st, n) ==
    IF n = 0
    THEN FNeg(Slot(State_new(st.queued, st.active, TRUE)).payoff)
    ELSE NormalPayoffSum(st, n, n)

\* C15: calc_normal_payoff(state, n) follows its definition: for n = 0 the
\* negated stored terminal payoff of the role-swapped state; for n >= 1 the
\* sum over t in n..n*s of P(t|n) times the negated stored payoff of the
\* normal state (queued, active+t) when active+t <= M, and times -1 when
\* active+t > M.
C15_NormalPayoffDefinition ==
    Done =>
        \A st \in NormalStateSet :
            \A n \in 0..(MaxScore - st.active + 1) :
                calc_normal_payoff(solver, st, n) = NormalPayoffDefinition(st, n)

C15_Witness ==
    /\ Done
    /\ Sides >= 2
    /\ \E st \in NormalStateSet :
           \E n \in 1..(MaxScore - st.active + 1) :
               /\ st.active + n < MaxScore
               /\ MaxScore - st.active <= n * Sides
               /\ Slot(State_new(st.queued, MaxScore, FALSE)).payoff # One
               /\ calc_normal_payoff(solver, st, n) = NormalPayoffDefinition(st, n)
               /\ calc_normal_payoff(solver, st, n) # Zero

PayoffQueries ==
    {"calc_normal_payoff", "calc_terminal_payoff"}

\* C16: a call of calc_normal_payoff(state, n) or calc_terminal_payoff(state, n)
\* on a solved solver, with n <= max_n and active, queued <= M, leaves every
\* Policy slot and the PMF table as they were.
C16_QueriesLeaveSolverUnchanged ==
    [][(query' # query /\ query'.op \in PayoffQueries) =>
           (solver'.policy = solver.policy /\ solver'.pmfs = solver.pmfs)]_vars

C16_Witness ==
    /\ Done
    /\ query # NoQuery
    /\ query.op = "calc_normal_payoff"
    /\ query.n = solver.pmfs.max_n
    /\ query.n >= 2
    /\ query.result # Slot(query.state).payoff
    /\ solver.policy = SeqSolve(solver.pmfs, MaxScore, Sides).policy

\* C17: solve is idempotent: after solve has run again on the already solved
\* solver, every Policy slot holds the dice count and payoff that the first
\* run returned.
C17_SolveIdempotent ==
    (Done /\ query # NoQuery /\ query.op = "policy") => solver.policy = query.result

C17_Witness ==
    /\ Done
    /\ query # NoQuery
    /\ query.op = "policy"
    /\ MaxScore >= 2
    /\ \A i \in DOMAIN writes : writes[i] = 1
    /\ \E st \in NormalStateSet : Slot(st).n >= 1 /\ Slot(st).payoff # Zero

TableStates ==
    { State_new(a, q, last) : a \in 0..MaxScore, q \in 0..MaxScore, last \in BOOLEAN }

IndexInRangeAndInjective ==
    /\ \A st \in TableStates :
           Policy_index(solver.policy, st) \in 0..(2 * (MaxScore + 1) * (MaxScore + 1) - 1)
    /\ Cardinality({ Policy_index(solver.policy, st) : st \in TableStates })
           = Cardinality(TableStates)

GetAfterSet ==
    (query # NoQuery /\ query.op = "set") =>
        Policy_get(solver.policy, query.state) = query.action

SetChangesNoOtherState ==
    (query' # query /\ query'.op = "set") =>
        \A st \in TableStates \ {query'.state} :
            Policy_get(solver'.policy, st) = Policy_get(solver.policy, st)

\* C18: for a Policy built with maximum M, the index a + (M+1)*q + (M+1)^2*last
\* of every state with a, q in 0..M lies in 0..2*(M+1)^2-1 and distinct states
\* have distinct indices; get(s) after set(s, x) returns x, and set(s, x)
\* changes the action of no state other than s.
C18_IndexInjective ==
    /\ [](IndexInRangeAndInjective /\ GetAfterSet)
    /\ [][SetChangesNoOtherState]_vars

C18_Witness ==
    /\ MaxScore >= 1
    /\ query # NoQuery
    /\ query.op = "set"
    /\ query.state = State_new(MaxScore, MaxScore, TRUE)
    /\ \E st \in TableStates \ {query.state} :
           /\ Policy_get(solver.policy, st) # Action_default
           /\ Policy_get(solver.policy, st) # query.action

\* C19: Policy::iter yields exactly 2*(M+1)^2 pairs in storage order, the
\* state at each position being the one whose index is that position; every
\* state (a, q, last) with a, q in 0..M appears exactly once, each action is
\* get(state), and iterating again yields the same sequence.
C19_IterInvertsIndex ==
    (query # NoQuery /\ query.op = "iter") =>
        /\ DOMAIN query.items = 0..(2 * (MaxScore + 1) * (MaxScore + 1) - 1)
        /\ \A i \in DOMAIN query.items :
               /\ query.items[i].state \in TableStates
               /\ Policy_index(solver.policy, query.items[i].state) = i
               /\ query.items[i].action = Policy_get(solver.policy, query.items[i].state)
        /\ \A st \in TableStates :
               Cardinality({ i \in DOMAIN query.items : query.items[i].state = st }) = 1
        /\ Policy_iter(solver.policy) = query.items

C19_Witness ==
    /\ MaxScore >= 1
    /\ query # NoQuery
    /\ query.op = "iter"
    /\ \E i \in DOMAIN query.items :
           /\ query.items[i].action # Action_default
           /\ query.items[i].state.last
           /\ query.items[i].state.active < query.items[i].state.queued

\* C20: for every s >= 1, every n >= 1 below the approximation threshold of
\* s, and every total, pmf(total, n, s) is the number of n-tuples of faces
\* 1..s that sum to total, divided by s^n.
C20_PmfIsTupleCount ==
    (/\ query.op = "pmf"
     /\ query.s >= 1
     /\ query.n >= 1
     /\ query.s < Len(APPROXIMATION_TABLE)
     /\ query.n < approximation_threshold(query.s))
    => query.result = DiceProbability(query.total, query.n, query.s)

\* C21: where pmf_normal_approximation evaluates a density (s >= 2, n >= 2
\* and n <= total <= n * s) it is the Gaussian density with the true mean
\* n * (s + 1) / 2 and the true variance n * (s^2 - 1) / 12 (the square of
\* the standard deviation), evaluated at the point total.
C21_GaussianAtTotal ==
    (/\ query.op = "pmf_normal_approximation"
     /\ query.s >= 2
     /\ query.n >= 2
     /\ query.n <= query.total
     /\ query.total <= query.n * query.s)
    => /\ query.result.mean = F64(query.n * (query.s + 1), 2)
       /\ FMul(query.result.std_dev, query.result.std_dev)
              = F64(query.n * (query.s * query.s - 1), 12)
       /\ query.result.x = [numerator |-> F64(query.total, 1), denominator_squared |-> One]

C23_RollCoversAllFaces ==
    /\ fault = "none"
    /\ (query # NoQuery /\ query.op = "roll")
       => /\ query.sum \in query.n..(query.n * greed.ruleset.sides)
          /\ roll_sums(Uniform_new(1, greed.ruleset.sides), query.n)
                = query.n..(query.n * greed.ruleset.sides)

\* The number of f in 1..faces with prev holding a count for t - f, summed:
\* prev[u + 1] is the number of tuples of one die fewer that sum to u.
RECURSIVE FaceSum(_, _, _)
FaceSum(prev, t, f) ==
    IF f = 0 THEN 0
    ELSE (IF t - f + 1 \in 1..Len(prev) THEN prev[t - f + 1] ELSE 0) + FaceSum(prev, t, f - 1)

RECURSIVE NextCounts(_, _, _, _, _)
NextCounts(prev, s, t, hi, row) ==
    IF t > hi THEN row
    ELSE LET next == Append(row, FaceSum(prev, t, s))
         IN  Computed(next, NextCounts(prev, s, t + 1, hi, next))

\* TupleCounts(n, s)[t + 1]: the number of n-tuples of faces 1..s that sum to t.
RECURSIVE TupleCounts(_, _)
TupleCounts(n, s) ==
    IF n = 0 THEN <<1>>
    ELSE LET prev == TupleCounts(n - 1, s)
         IN  Computed(prev, NextCounts(prev, s, 0, n * s, <<>>))

\* acc plus the signed sum over the totals t..n*s, with P(t) = counts[t + 1] / s^n:
\* +P(t) for queued < active + t <= max, -P(t) for active + t < queued or
\* active + t > max, nothing for a tie.
RECURSIVE TerminalPayoffSum(_, _, _, _, _)
TerminalPayoffSum(st, n, counts, t, acc) ==
    IF t > n * Sides THEN acc
    ELSE LET P == F64(counts[t + 1], Pow(Sides, n))
             score == st.active + t
             term == IF st.queued < score /\ score <= MaxScore THEN P
                     ELSE IF score < st.queued \/ score > MaxScore THEN FNeg(P)
                     ELSE Zero
             next == FAdd(acc, term)
         IN  Computed(next, TerminalPayoffSum(st, n, counts, t + 1, next))

\* The payoff of rolling n dice in a terminal state as the claim words it.
TerminalPayoffDefinition(st, n) ==
    IF n = 0
    THEN (IF st.active < st.queued THEN FNeg(One)
          ELSE IF st.active = st.queued THEN Zero ELSE One)
    ELSE LET counts == TupleCounts(n, Sides)
         IN  Computed(counts, TerminalPayoffSum(st, n, counts, n, Zero))

\* C24: calc_terminal_payoff(state, n) is -1, 0 or +1 for n = 0 as active is
\* below, equal to or above queued, and for n >= 1 the sum over the totals t
\* in n..n*s of +P(t) when queued < active + t <= M, -P(t) when
\* active + t < queued or active + t > M, and 0 when active + t = queued.
C24_TerminalPayoffDefinition ==
    (query # NoQuery /\ query.op = "calc_terminal_payoff")
    => query.result = TerminalPayoffDefinition(query.state, query.n)

\* A call with dice whose totals win, lose by falling short, tie and bust.
C24_Witness ==
    /\ query # NoQuery
    /\ query.op = "calc_terminal_payoff"
    /\ query.n >= 1
    /\ \E t \in query.n..(query.n * Sides) : query.state.active + t < query.state.queued
    /\ \E t \in query.n..(query.n * Sides) : query.state.active + t = query.state.queued
    /\ \E t \in query.n..(query.n * Sides) : query.state.active + t > MaxScore
    /\ \E t \in query.n..(query.n * Sides) :
           query.state.queued < query.state.active + t /\ query.state.active + t <= MaxScore

\* C25: find_optimal_terminal_action returns by the guaranteed-win shortcut
\* exactly when active <= queued and s * (queued - active + 1) <= M - active;
\* it then returns n = queued - active + 1 with payoff +1, every total t in
\* n..n*s satisfies queued < active + t <= M, calc_terminal_payoff(state, n)
\* is +1, and no smaller dice count has payoff +1.
C25_GuaranteedWinShortcut ==
    (query # NoQuery /\ query.op = "find_optimal_terminal_action")
    => LET a == query.state.active
           q == query.state.queued
           n == q - a + 1
           shortcut == a <= q /\ Sides * (q - a + 1) <= MaxScore - a
       IN  /\ (a <= q /\ query.stop = -1) <=> shortcut
           /\ shortcut =>
                /\ query.result = Action_new(n, One)
                /\ \A t \in n..(n * Sides) : q < a + t /\ a + t <= MaxScore
                /\ calc_terminal_payoff(solver, query.state, n) = One
                /\ \A m \in 0..(n - 1) : calc_terminal_payoff(solver, query.state, m) # One

\* The shortcut taken by a player who is behind: more than one die is needed.
C25_Witness ==
    /\ query # NoQuery
    /\ query.op = "find_optimal_terminal_action"
    /\ query.state.active < query.state.queued
    /\ query.stop = -1
    /\ query.result.n >= 2
    /\ Sides >= 2

\* The margin of the early stop as the claim gives it.
ClaimedMargin ==
    F64(1, 100)

\* The best payoff the search holds before it evaluates n dice: the initial
\* -1 and the payoffs of the dice counts tried so far.
BestBefore(st, n) ==
    LET tried == {FNeg(One)} \cup { calc_terminal_payoff(solver, st, m) :
                                      m \in terminal_search_start(solver, st)..(n - 1) }
    IN  CHOOSE best \in tried : \A other \in tried : FGe(best, other)

\* The payoff of n dice is more than the claimed margin below the best so far.
DropsBeyondMargin(st, n) ==
    FLt(ClaimedMargin, FSub(BestBefore(st, n), calc_terminal_payoff(solver, st, n)))

\* C26: the terminal search stops at the first dice count whose payoff is
\* more than the margin of about 0.01 below the best payoff so far, and
\* otherwise goes on to the upper bound of the search.
C26_StopsBeyondMargin ==
    (query # NoQuery /\ query.op = "find_optimal_terminal_action" /\ query.stop >= 0)
    => /\ \A n \in terminal_search_start(solver, query.state)..(query.stop - 1) :
              ~DropsBeyondMargin(query.state, n)
       /\ query.stop < terminal_search_limit(solver) => DropsBeyondMargin(query.state, query.stop)

\* ceil(x / d) for x >= 0 and d >= 1: the least k with k * d >= x.
Ceiling(x, d) ==
    CHOOSE k \in 0..x : k * d >= x /\ (k = 0 \/ (k - 1) * d < x)

\* C27: the bound 2 * (M - a + s) / (s + 1), computed with integer division,
\* equals ceil(2 * (M - a) / (s + 1)) for every a in 0..M and every s >= 1,
\* as the comment above the computation says.
C27_BoundIsCeiling ==
    (query # NoQuery /\ query.op = "max_optimal_n")
    => query.result = Ceiling(2 * (MaxScore - query.state.active), Sides + 1)

\* C28: solve_terminal_states called on a newly constructed solver, before
\* any precompute_pmfs, runs to its end, every PMF lookup it makes lies inside
\* the table the solver holds at that moment, and when it has returned every
\* terminal slot has been written.
C28_TerminalStatesOnNewSolver ==
    solver.pmfs = PMFLookup_default
    => /\ fault = "none"
       /\ \A l \in lookups : lookup_defined(solver.pmfs, l[1], l[2])
       /\ Stmt # "solve_terminal_states" => \A st \in TerminalStateSet : Written(st)

\* C29: no action stored by solve is a certain bust: every written slot, of a
\* terminal or a normal state with active score a, holds a dice count n with
\* a + n <= M, so that the least total of the n dice stays within the maximum.
C29_NoCertainBust ==
    \A st \in TerminalStateSet \cup NormalStateSet :
        Written(st) => st.active + Slot(st).n <= MaxScore

\* solve has returned, and some normal and some terminal slot hold dice
\* counts that reach the maximum exactly when every die shows 1.
C29_Witness ==
    /\ Done
    /\ \E st \in NormalStateSet : Slot(st).n >= 1 /\ st.active + Slot(st).n = MaxScore
    /\ \E st \in TerminalStateSet : Slot(st).n >= 1 /\ st.active + Slot(st).n = MaxScore

\* C30: for every ruleset GreedSolver::solve stores in every slot the dice
\* count and the payoff that DpSolver::solve stores in it.
C30_SolversAgree ==
    (query # NoQuery /\ query.op = "GreedSolver::solve")
    => query.result.policy = solver.policy

====
